---------------------------- MODULE Spec2Model ----------------------------
(***************************************************************************)
(* Simplex noise evaluator of noice (src/noise_fns/generators/simplex.rs). *)
(*                                                                         *)
(* f64 values are modelled in fixed point: the integer v stands for the    *)
(* real v / Scale.  isize is modelled as a two's complement integer of     *)
(* IsizeBits bits.  Evaluators are values (the struct is Copy); the        *)
(* variables that hold them are the slots.                                 *)
(***************************************************************************)
EXTENDS Integers, Sequences, FiniteSets, TLC

\* ------------------------------------------------------------- bounds
\* Number of variables (owners) holding an evaluator.
NHolders == 2
\* Number of threads calling get.
NThreads == 2
\* Seeds range over 0..MaxSeed (u32 in the source; no arithmetic is done on them).
MaxSeed == 2
\* Width of the lattice integer type (isize) in the model.
IsizeBits == 4
\* Fixed-point scale of the f64 values: v stands for v / Scale.
Scale == 1000
\* The permutation table has 2^TableBits entries.
TableBits == 3

Holders == 1..NHolders
Threads == 1..NThreads
Seeds == 0..MaxSeed
Arities == {2, 3, 4}

TableSize == 2 ^ TableBits
IsizeModulus == 2 ^ IsizeBits
IsizeMax == (2 ^ (IsizeBits - 1)) - 1
IsizeMin == 0 - (2 ^ (IsizeBits - 1))

\* Coordinates (fixed point) the points are drawn from: values inside one
\* cell, on cell borders, negative ones, and magnitudes beyond the isize range.
PointVals == {-20 * Scale, (0 - Scale) - (Scale \div 4), 0, Scale \div 4, Scale \div 2,
              (7 * Scale) \div 10, Scale + ((3 * Scale) \div 5), 20 * Scale}
\* Points the threads of the concurrent specification evaluate: one per arity.
CallPoints == {[i \in 1..n |-> IF i = 1 THEN (7 * Scale) \div 10 ELSE 0] : n \in Arities}

VARIABLES
    slots,            \* slots[h]: the evaluator held by holder h
    lastCall,         \* the last new()/set_seed call: its arguments and result
    lastSet,          \* lastSet[h]: the seed last given to the evaluator in slot h
    overflow_checks,  \* the build: TRUE when integer overflow panics, FALSE when it wraps
    th                \* th[t]: the get call thread t is running

vars == <<slots, lastCall, lastSet, overflow_checks, th>>

\* --------------------------------------------------- vector utilities
Vec(n, x) == [i \in 1..n |-> x]
add(a, b) == [i \in 1..Len(a) |-> a[i] + b[i]]
sub(a, b) == [i \in 1..Len(a) |-> a[i] - b[i]]
RECURSIVE SumTo(_, _)
SumTo(a, k) == IF k = 0 THEN 0 ELSE a[k] + SumTo(a, k - 1)
Sum(a) == SumTo(a, Len(a))

\* Fixed-point product and quotient, rounded down.
FMul(a, b) == (a * b) \div Scale
FDiv(a, b) == (a * Scale) \div b
\* Fixed-point square root: the largest r with (r/Scale)^2 <= a/Scale.
RECURSIVE SqrtSearch(_, _, _)
SqrtSearch(x, lo, hi) ==
    IF lo >= hi THEN lo
    ELSE LET mid == (lo + hi + 1) \div 2
         IN IF mid * mid <= x THEN SqrtSearch(x, mid, hi) ELSE SqrtSearch(x, lo, mid - 1)
FSqrt(a) == SqrtSearch(a * Scale, 0, a + Scale)
dot(a, b) == Sum([i \in 1..Len(a) |-> FMul(a[i], b[i])])
\* f64::floor, as an f64.
floor(a) == (a \div Scale) * Scale
\* f64 -> isize: the integer part, saturating at the ends of the isize range.
to_isize_1(a) ==
    LET q == a \div Scale
    IN IF q > IsizeMax THEN IsizeMax ELSE IF q < IsizeMin THEN IsizeMin ELSE q
to_isize(v) == [i \in 1..Len(v) |-> to_isize_1(v[i])]
to_f64(v) == [i \in 1..Len(v) |-> v[i] * Scale]
\* isize + isize, wrapped to the width of isize.
WrapIsize(x) == ((x - IsizeMin) % IsizeModulus) + IsizeMin
add_isize(a, b) == [i \in 1..Len(a) |-> WrapIsize(a[i] + b[i])]
Overflows(a, b) == \E i \in 1..Len(a) : a[i] + b[i] > IsizeMax \/ a[i] + b[i] < IsizeMin

\* ------------------------------------------------- permutation table
\* PermutationTable::new(seed): a permutation of 0..TableSize-1 fixed by the seed.
PermutationTableNew(s) ==
    [i \in 0..(TableSize - 1) |-> (((2 * s) + 1) * i + s) % TableSize]
\* perm_table.get2/get3/get4: hash of a lattice coordinate, total over the integers.
RECURSIVE PermHash(_, _, _)
PermHash(values, pos, k) ==
    IF k = 0 THEN 0
    ELSE values[(PermHash(values, pos, k - 1) + pos[k]) % TableSize]
perm_get(values, pos) == PermHash(values, pos, Len(pos))

\* ----------------------------------------------------- the evaluator
DEFAULT_SEED == 0

new == [seed |-> DEFAULT_SEED, perm_table |-> PermutationTableNew(DEFAULT_SEED)]

set_seed_StaleTable(self, s) ==
    IF self.seed = s THEN self
    ELSE [seed |-> s, perm_table |-> self.perm_table]
set_seed_FastPathDefault(self, s) ==
    IF self.seed = s THEN new
    ELSE [seed |-> s, perm_table |-> PermutationTableNew(s)]
set_seed(self, s) ==
    IF self.seed = s THEN self
    ELSE [seed |-> s, perm_table |-> PermutationTableNew(s)]

seed(self) == self.seed


\* ----------------------------------------------------- gradient tables
\* gradient::get2/get3/get4: a fixed table of directions, indexed modulo its size.
\* 2D: the 4 axis directions and the 4 diagonals; 3D and 4D: the vectors with
\* one zero component and the others +-1/sqrt(n-1).
GradientCount(n) == IF n = 2 THEN 8 ELSE n * (2 ^ (n - 1))
RECURSIVE Bit(_, _)
Bit(x, k) == IF k = 0 THEN x % 2 ELSE Bit(x \div 2, k - 1)
gradient_get(n, index) ==
    LET i == index % GradientCount(n)
    IN IF n = 2
       THEN LET diag == FDiv(Scale, FSqrt(2 * Scale))
            IN CASE i = 0 -> <<Scale, 0>>
                 [] i = 1 -> <<0 - Scale, 0>>
                 [] i = 2 -> <<0, Scale>>
                 [] i = 3 -> <<0, 0 - Scale>>
                 [] i = 4 -> <<diag, diag>>
                 [] i = 5 -> <<0 - diag, diag>>
                 [] i = 6 -> <<diag, 0 - diag>>
                 [] OTHER -> <<0 - diag, 0 - diag>>
       ELSE LET mag  == FDiv(Scale, FSqrt((n - 1) * Scale))
                zero == (i \div (2 ^ (n - 1))) + 1
                bits == i % (2 ^ (n - 1))
            IN [a \in 1..n |->
                   IF a = zero THEN 0
                   ELSE IF Bit(bits, IF a < zero THEN a - 1 ELSE a - 2) = 1
                        THEN 0 - mag ELSE mag]

\* ------------------------------------------------------------- get
skew_factor(n) == FDiv(FSqrt((n + 1) * Scale) - Scale, n * Scale)
unskew_factor(n) == FDiv(Scale - FDiv(Scale, FSqrt((n + 1) * Scale)), n * Scale)

skew_point(point, factor) == add(point, Vec(Len(point), FMul(Sum(point), factor)))
unskew_point(skewed_point, factor) ==
    sub(skewed_point, Vec(Len(skewed_point), FMul(Sum(skewed_point), factor)))

surflet(gradient_index, distance) ==
    LET t == (Scale \div 2) - Sum([i \in 1..Len(distance) |-> FMul(distance[i], distance[i])])
    IN IF t < 0 THEN 0
       ELSE LET t2 == FMul(t, t)
            IN FMul(FMul(t2, t2), dot(gradient_get(Len(distance), gradient_index), distance))

\* The cell of the point: the floored skewed point, as a lattice coordinate.
Floored(point) ==
    LET n == Len(point)
        skewed_input == skew_point(point, skew_factor(n))
    IN to_isize([i \in 1..n |-> floor(skewed_input[i])])
\* The vector from the cell's minimum corner to the point.
Distance(point, floored) ==
    sub(point, unskew_point(to_f64(floored), unskew_factor(Len(point))))

\* 2D: the intermediate corner offset.
Offsets2(distance) ==
    IF distance[1] > distance[2] THEN << <<1, 0>> >> ELSE << <<0, 1>> >>

\* 3D: the two intermediate corner offsets (offset1, offset2).
Offsets3_Typo(distance) ==
    IF distance[1] >= distance[2]
    THEN IF distance[2] >= distance[3] THEN << <<1, 0, 0>>, <<1, 1, 0>> >>
         ELSE IF distance[1] >= distance[3] THEN << <<1, 0, 0>>, <<1, 0, 1>> >>
         ELSE << <<0, 0, 1>>, <<1, 1, 0>> >>
    ELSE IF distance[3] >= distance[2] THEN << <<0, 0, 1>>, <<0, 1, 1>> >>
    ELSE IF distance[3] >= distance[1] THEN << <<0, 1, 0>>, <<0, 1, 1>> >>
    ELSE << <<0, 1, 0>>, <<1, 1, 0>> >>
Offsets3_BadBranch(distance) ==
    IF distance[1] >= distance[2]
    THEN IF distance[2] >= distance[3] THEN << <<1, 0, 0>>, <<1, 1, 0>> >>
         ELSE IF distance[1] >= distance[3] THEN << <<1, 0, 0>>, <<1, 0, 1>> >>
         ELSE << <<0, 0, 1>>, <<1, 0, 1>> >>
    ELSE IF distance[3] >= distance[2] THEN << <<0, 0, 1>>, <<0, 1, 1>> >>
    ELSE IF distance[3] >= distance[1] THEN << <<0, 1, 0>>, <<1, 1, 0>> >>
    ELSE << <<0, 1, 0>>, <<1, 1, 0>> >>
Offsets3(distance) ==
    IF distance[1] >= distance[2]
    THEN IF distance[2] >= distance[3] THEN << <<1, 0, 0>>, <<1, 1, 0>> >>
         ELSE IF distance[1] >= distance[3] THEN << <<1, 0, 0>>, <<1, 0, 1>> >>
         ELSE << <<0, 0, 1>>, <<1, 0, 1>> >>
    ELSE IF distance[3] >= distance[2] THEN << <<0, 0, 1>>, <<0, 1, 1>> >>
    ELSE IF distance[3] >= distance[1] THEN << <<0, 1, 0>>, <<0, 1, 1>> >>
    ELSE << <<0, 1, 0>>, <<1, 1, 0>> >>

\* 4D: the rank counters (rank_x, rank_y, rank_z, rank_w) of the six comparisons.
B(c) == IF c THEN 1 ELSE 0
Ranks4_BothLose(distance) ==
    << B(distance[1] > distance[2]) + B(distance[1] > distance[3]) + B(distance[1] > distance[4]),
       B(distance[2] > distance[1]) + B(distance[2] > distance[3]) + B(distance[2] > distance[4]),
       B(distance[3] > distance[1]) + B(distance[3] > distance[2]) + B(distance[3] > distance[4]),
       B(distance[4] > distance[1]) + B(distance[4] > distance[2]) + B(distance[4] > distance[3]) >>
Ranks4(distance) ==
    << B(distance[1] > distance[2]) + B(distance[1] > distance[3]) + B(distance[1] > distance[4]),
       B(~(distance[1] > distance[2])) + B(distance[2] > distance[3]) + B(distance[2] > distance[4]),
       B(~(distance[1] > distance[3])) + B(~(distance[2] > distance[3])) + B(distance[3] > distance[4]),
       B(~(distance[1] > distance[4])) + B(~(distance[2] > distance[4])) + B(~(distance[3] > distance[4])) >>
\* 4D: the three intermediate corner offsets, by thresholding the ranks.
Offsets4(rank) ==
    << [a \in 1..4 |-> B(rank[a] >= 3)],
       [a \in 1..4 |-> B(rank[a] >= 2)],
       [a \in 1..4 |-> B(rank[a] >= 1)] >>

Ranks(distance) == IF Len(distance) = 4 THEN Ranks4(distance) ELSE <<>>
\* offset_0 .. offset_n: the zero vector, the intermediate offsets, the all-ones vector.
Offsets(distance) ==
    LET n == Len(distance)
        mid == CASE n = 2 -> Offsets2(distance)
                 [] n = 3 -> Offsets3(distance)
                 [] OTHER -> Offsets4(Ranks(distance))
    IN << Vec(n, 0) >> \o mid \o << Vec(n, 1) >>

\* corner_k: distance - offset_k + k * unskew, for k = 0..n (corner_0 is distance).
Corner_StaleOffset(distance, offsets, k) ==
    LET n == Len(distance)
        o == IF k = 2 THEN offsets[2] ELSE offsets[k + 1]
    IN IF k = 0 THEN distance
       ELSE add(sub(distance, to_f64(o)), Vec(n, k * unskew_factor(n)))
Corner(distance, offsets, k) ==
    LET n == Len(distance)
    IN IF k = 0 THEN distance
       ELSE add(sub(distance, to_f64(offsets[k + 1])), Vec(n, k * unskew_factor(n)))
Corners(distance, offsets) == [k \in 1..Len(offsets) |-> Corner(distance, offsets, k - 1)]

\* The lattice coordinates looked up: floored + offset_k.
Keys(floored, offsets) == [k \in 1..Len(offsets) |-> add_isize(floored, offsets[k])]
KeysOverflow(floored, offsets) == \E k \in 1..Len(offsets) : Overflows(floored, offsets[k])

Norm(n) == CASE n = 2 -> 70 [] n = 3 -> 32 [] OTHER -> 27

Combine(n, gi, corners) ==
    Norm(n) * Sum([k \in 1..Len(gi) |-> surflet(gi[k], corners[k])])

\* get, run alone: the outcome of the call, from the evaluator and the point.
get(self, point, checks) ==
    LET n == Len(point)
        floored == Floored(point)
        distance == Distance(point, floored)
        offsets == Offsets(distance)
        corners == Corners(distance, offsets)
        keys == Keys(floored, offsets)
        gi == [k \in 1..(n + 1) |-> perm_get(self.perm_table, keys[k])]
    IN IF checks /\ KeysOverflow(floored, offsets)
       THEN [panicked |-> TRUE, value |-> 0]
       ELSE [panicked |-> FALSE, value |-> Combine(n, gi, corners)]


\* ------------------------------------------------------ state machine
Idle == [pc |-> "idle", self |-> 0, self0 |-> new, point |-> <<>>, floored |-> <<>>,
         distance |-> <<>>, rank |-> <<>>, offsets |-> <<>>, corners |-> <<>>,
         keys |-> <<>>, gi |-> <<>>, overflowed |-> FALSE, result |-> 0]

\* A thread holds a shared reference to slot h for the length of its call.
Borrowed(h) == \E t \in Threads : th[t].pc # "idle" /\ th[t].self = h

Init ==
    /\ slots = [h \in Holders |-> new]
    /\ lastCall = [op |-> "new", src |-> 1, dst |-> 1, arg |-> DEFAULT_SEED, self |-> new]
    /\ lastSet = [h \in Holders |-> DEFAULT_SEED]
    /\ overflow_checks \in BOOLEAN
    /\ th = [t \in Threads |-> Idle]

\* slots[j] = Simplex::new()
New(j) ==
    /\ ~Borrowed(j)
    /\ slots' = [slots EXCEPT ![j] = new]
    /\ lastCall' = [op |-> "new", src |-> j, dst |-> j, arg |-> DEFAULT_SEED, self |-> new]
    /\ lastSet' = [lastSet EXCEPT ![j] = DEFAULT_SEED]
    /\ UNCHANGED <<overflow_checks, th>>

\* slots[j] = slots[i].set_seed(s): self is passed by value (a copy of slots[i]).
SetSeed_Aliased(i, j, s) ==
    /\ ~Borrowed(j)
    /\ slots' = [h \in Holders |->
                    IF h = j \/ slots[h] = slots[i] THEN set_seed(slots[i], s) ELSE slots[h]]
    /\ lastCall' = [op |-> "set_seed", src |-> i, dst |-> j, arg |-> s, self |-> slots[i]]
    /\ lastSet' = [lastSet EXCEPT ![j] = s]
    /\ UNCHANGED <<overflow_checks, th>>
SetSeed_InPlace(i, j, s) ==
    /\ ~Borrowed(j)
    /\ slots' = [h \in Holders |-> IF h = i \/ h = j THEN set_seed(slots[i], s) ELSE slots[h]]
    /\ lastCall' = [op |-> "set_seed", src |-> i, dst |-> j, arg |-> s, self |-> slots[i]]
    /\ lastSet' = [lastSet EXCEPT ![j] = s]
    /\ UNCHANGED <<overflow_checks, th>>
SetSeed(i, j, s) ==
    /\ ~Borrowed(j)
    /\ slots' = [slots EXCEPT ![j] = set_seed(slots[i], s)]
    /\ lastCall' = [op |-> "set_seed", src |-> i, dst |-> j, arg |-> s, self |-> slots[i]]
    /\ lastSet' = [lastSet EXCEPT ![j] = s]
    /\ UNCHANGED <<overflow_checks, th>>

\* Thread t calls slots[h].get(p).
Call(t, h, p) ==
    /\ th[t].pc = "idle"
    /\ th' = [th EXCEPT ![t] = [Idle EXCEPT !.pc = "locate", !.self = h,
                                            !.self0 = slots[h], !.point = p]]
    /\ UNCHANGED <<slots, lastCall, lastSet, overflow_checks>>

\* skew, floor, unskew, distance
Locate(t) ==
    /\ th[t].pc = "locate"
    /\ LET floored == Floored(th[t].point)
       IN th' = [th EXCEPT ![t].pc = "rank", ![t].floored = floored,
                           ![t].distance = Distance(th[t].point, floored)]
    /\ UNCHANGED <<slots, lastCall, lastSet, overflow_checks>>

\* the corner ordering
Rank(t) ==
    /\ th[t].pc = "rank"
    /\ th' = [th EXCEPT ![t].pc = "corners", ![t].rank = Ranks(th[t].distance),
                        ![t].offsets = Offsets(th[t].distance)]
    /\ UNCHANGED <<slots, lastCall, lastSet, overflow_checks>>

\* the local coordinate of every corner
CornersStep(t) ==
    /\ th[t].pc = "corners"
    /\ th' = [th EXCEPT ![t].pc = "lookup",
                        ![t].corners = Corners(th[t].distance, th[t].offsets)]
    /\ UNCHANGED <<slots, lastCall, lastSet, overflow_checks>>

\* the gradient index of every corner, read from the evaluator's table
Lookup(t) ==
    /\ th[t].pc = "lookup"
    /\ LET over == KeysOverflow(th[t].floored, th[t].offsets)
           keys == Keys(th[t].floored, th[t].offsets)
       IN IF over /\ overflow_checks
          THEN th' = [th EXCEPT ![t].pc = "panicked", ![t].overflowed = TRUE]
          ELSE th' = [th EXCEPT ![t].pc = "sum", ![t].overflowed = over, ![t].keys = keys,
                                ![t].gi = [k \in 1..Len(keys) |->
                                              perm_get(slots[th[t].self].perm_table, keys[k])]]
    /\ UNCHANGED <<slots, lastCall, lastSet, overflow_checks>>

\* the surflets, summed and normalised
SumStep(t) ==
    /\ th[t].pc = "sum"
    /\ th' = [th EXCEPT ![t].pc = "done",
                        ![t].result = Combine(Len(th[t].point), th[t].gi, th[t].corners)]
    /\ UNCHANGED <<slots, lastCall, lastSet, overflow_checks>>

\* the caller drops the result and the reference
Return(t) ==
    /\ th[t].pc = "done"
    /\ th' = [th EXCEPT ![t] = Idle]
    /\ UNCHANGED <<slots, lastCall, lastSet, overflow_checks>>

Next ==
    \/ \E j \in Holders : New(j)
    \/ \E i, j \in Holders, s \in Seeds : SetSeed(i, j, s)
    \/ \E t \in Threads, h \in Holders, p \in CallPoints : Call(t, h, p)
    \/ \E t \in Threads : Locate(t)
    \/ \E t \in Threads : Rank(t)
    \/ \E t \in Threads : CornersStep(t)
    \/ \E t \in Threads : Lookup(t)
    \/ \E t \in Threads : SumStep(t)
    \/ \E t \in Threads : Return(t)

\* Threads evaluating shared evaluators while their owners construct and re-seed.
Spec == Init /\ [][Next]_vars

\* Construction and re-seeding alone.
NextSeed ==
    \/ \E j \in Holders : New(j)
    \/ \E i, j \in Holders, s \in Seeds : SetSeed(i, j, s)
SpecSeed == Init /\ [][NextSeed]_vars

\* One call of get, on every point of the grid, for every seed and build.
InitGet ==
    /\ \E s \in Seeds :
          /\ slots = [h \in Holders |-> IF h = 1 THEN set_seed(new, s) ELSE new]
          /\ lastCall = [op |-> "set_seed", src |-> 1, dst |-> 1, arg |-> s, self |-> new]
          /\ lastSet = [h \in Holders |-> IF h = 1 THEN s ELSE DEFAULT_SEED]
          /\ \E n \in Arities : \E p \in [1..n -> PointVals] :
                th = [t \in Threads |->
                         IF t = 1 THEN [Idle EXCEPT !.pc = "locate", !.self = 1,
                                                    !.self0 = set_seed(new, s), !.point = p]
                         ELSE Idle]
    /\ overflow_checks \in BOOLEAN
NextGet ==
    \/ Locate(1)
    \/ Rank(1)
    \/ CornersStep(1)
    \/ Lookup(1)
    \/ SumStep(1)
SpecGet == InitGet /\ [][NextGet]_vars


\* ---------------------------------------------------------- properties
\* The ranking step of thread t's call has run.
Ranked(t) == th[t].pc \in {"corners", "lookup", "sum", "done", "panicked"}
\* The call of thread t has looked up its gradient indices.
LookedUp(t) == th[t].pc \in {"sum", "done"}
Arity(t) == Len(th[t].point)
Ones(o) == Sum(o)
\* The step of the corner sequence at which axis a is set to 1.
SetAt(offsets, a) == Cardinality({k \in 1..Len(offsets) : offsets[k][a] = 0})

\* C1: the corner offsets of a call start at the zero vector, end at the
\* all-ones vector, and each offset is the previous one with exactly one more
\* coordinate set to 1, for every arity and every distance, ties included.
C1_OffsetsFormPath ==
    \A t \in Threads : Ranked(t) =>
        LET n == Arity(t)
            o == th[t].offsets
        IN /\ Len(o) = n + 1
           /\ o[1] = Vec(n, 0)
           /\ o[n + 1] = Vec(n, 1)
           /\ \A k \in 1..n :
                 /\ Ones(o[k]) = k - 1
                 /\ \E a \in 1..n : o[k][a] = 0 /\ o[k + 1] = [o[k] EXCEPT ![a] = 1]
C1_Witness ==
    \E t \in Threads :
        /\ Ranked(t) /\ Arity(t) = 4
        /\ th[t].distance[1] = th[t].distance[2]
        /\ th[t].distance[3] > th[t].distance[4]
        /\ th[t].offsets[3] = <<0, 1, 1, 0>>

\* C2: an axis set to 1 earlier in the corner sequence has a distance
\* component at least as large as one set later.
C2_OrderRanksDistance ==
    \A t \in Threads : Ranked(t) =>
        \A i, j \in 1..Arity(t) :
            SetAt(th[t].offsets, i) < SetAt(th[t].offsets, j)
                => th[t].distance[i] >= th[t].distance[j]
C2_Witness ==
    \E t \in Threads :
        /\ Ranked(t) /\ Arity(t) = 3
        /\ th[t].distance[3] > th[t].distance[1]
        /\ th[t].distance[1] > th[t].distance[2]
        /\ th[t].offsets = << <<0, 0, 0>>, <<0, 0, 1>>, <<1, 0, 1>>, <<1, 1, 1>> >>

\* C10: the four rank counters of a 4D call are a permutation of 0..3 (sum 6),
\* and of two equal components the higher-indexed axis has the higher rank.
C10_RanksArePermutation ==
    \A t \in Threads : (Ranked(t) /\ Arity(t) = 4) =>
        LET r == th[t].rank
        IN /\ {r[a] : a \in 1..4} = 0..3
           /\ Sum(r) = 6
           /\ \A i, j \in 1..4 :
                 (i < j /\ th[t].distance[i] = th[t].distance[j]) => r[j] > r[i]
C10_Witness ==
    \E t \in Threads :
        /\ Ranked(t) /\ Arity(t) = 4
        /\ \A a \in 1..4 : th[t].distance[a] = th[t].distance[1]
        /\ th[t].rank = <<0, 1, 2, 3>>

\* Which of the axes i and j a corner sequence sets to 1 first.
First(offsets, i, j) == IF SetAt(offsets, i) < SetAt(offsets, j) THEN i ELSE j
\* Distance components the tie-break of the 3D ordering is compared on.
TieVals == {0, Scale \div 4, Scale \div 2}

\* C8: in the 3D ordering a tie distance[i] = distance[j] is always resolved
\* the same way: the axis of the pair that this call sets first is the one
\* every other distance vector with the same tie sets first.
C8_TieBreakUniform3 ==
    \A t \in Threads : (Ranked(t) /\ Arity(t) = 3) =>
        \A i, j \in 1..3 : (i < j /\ th[t].distance[i] = th[t].distance[j]) =>
            \A e \in [1..3 -> TieVals] : e[i] = e[j] =>
                First(Offsets(e), i, j) = First(th[t].offsets, i, j)

\* C7: get is total on finite points: no sum floored + offset leaves the range
\* of the lattice integer type, and no call faults.
C7_GetTotalNoOverflow ==
    \A t \in Threads : th[t].pc # "panicked" /\ ~th[t].overflowed

\* C9: every corner k = 0..n of a call is looked up at floored + offset_k and
\* displaced by distance - offset_k + k * unskew(n) with one and the same
\* offset_k, which has exactly k ones; n + 1 corners contribute.
C9_CornersPaired ==
    \A t \in Threads : LookedUp(t) =>
        LET n == Arity(t)
        IN /\ Len(th[t].keys) = n + 1
           /\ Len(th[t].corners) = n + 1
           /\ Len(th[t].gi) = n + 1
           /\ \A k \in 0..n :
                 \E o \in [1..n -> {0, 1}] :
                    /\ Ones(o) = k
                    /\ th[t].keys[k + 1] = add_isize(th[t].floored, o)
                    /\ th[t].corners[k + 1] =
                          [a \in 1..n |-> (th[t].distance[a] - (o[a] * Scale))
                                            + (k * unskew_factor(n))]
                    /\ th[t].gi[k + 1] =
                          perm_get(slots[th[t].self].perm_table, th[t].keys[k + 1])
C9_Witness ==
    \E t \in Threads :
        /\ th[t].pc = "done" /\ Arity(t) = 4
        /\ th[t].result # 0
        /\ th[t].keys[3] # th[t].keys[2]
        /\ ~th[t].overflowed

\* ---- construction and re-seeding
WellFormed(e) == e.perm_table = PermutationTableNew(e.seed)

\* C3: every evaluator's table is the table of its seed and seed() is the seed
\* last set (0 if none), so evaluators that report equal seeds return the same
\* outcome from get at every point.
C3_SeedDeterminesEvaluator ==
    /\ \A h \in Holders : WellFormed(slots[h]) /\ seed(slots[h]) = lastSet[h]
    /\ \A g, h \in Holders : seed(slots[g]) = seed(slots[h]) =>
          \A p \in CallPoints, c \in BOOLEAN : get(slots[g], p, c) = get(slots[h], p, c)
C3_Witness ==
    /\ lastCall.op = "set_seed"
    /\ lastCall.self.seed # lastCall.arg
    /\ \E g, h \in Holders : g # h /\ seed(slots[g]) = MaxSeed /\ seed(slots[h]) = MaxSeed
    /\ \E p \in CallPoints : get(slots[1], p, TRUE) # get(new, p, TRUE)

\* C4: set_seed with the current seed returns the evaluator it was given, and
\* set_seed(s) applied to its own result returns that result.
C4_ReseedNoOp ==
    lastCall.op = "set_seed" =>
        /\ (lastCall.arg = lastCall.self.seed => slots[lastCall.dst] = lastCall.self)
        /\ set_seed(slots[lastCall.dst], lastCall.arg) = slots[lastCall.dst]
C4_Witness ==
    /\ lastCall.op = "set_seed"
    /\ lastCall.arg = lastCall.self.seed
    /\ lastCall.arg # DEFAULT_SEED
    /\ slots[lastCall.dst] = lastCall.self

\* C5: a set_seed call changes no slot but the one its result is stored in:
\* every other holder keeps the seed and the table it had.
C5_ReseedFrame ==
    [][\A h \in Holders : h # lastCall'.dst => slots'[h] = slots[h]]_vars
C5_Witness ==
    /\ lastCall.op = "set_seed"
    /\ lastCall.src # lastCall.dst
    /\ lastCall.arg # lastCall.self.seed
    /\ slots[lastCall.src] = lastCall.self
    /\ slots[lastCall.dst] # lastCall.self
    /\ lastCall.self.seed # DEFAULT_SEED

\* ---- concurrent evaluation
\* C6: while threads evaluate a shared evaluator in any interleaving, the
\* evaluator keeps the seed and table it had when each call began, and each
\* call ends with the outcome get has when run alone; calls with equal seed
\* and point return equal results.
C6_ConcurrentGetPure ==
    /\ \A t \in Threads : th[t].pc # "idle" =>
          /\ slots[th[t].self] = th[t].self0
          /\ th[t].pc = "done" =>
                get(th[t].self0, th[t].point, overflow_checks) =
                    [panicked |-> FALSE, value |-> th[t].result]
          /\ th[t].pc = "panicked" =>
                get(th[t].self0, th[t].point, overflow_checks).panicked
    /\ \A t, u \in Threads :
          (/\ th[t].pc = "done" /\ th[u].pc = "done"
           /\ th[t].self0.seed = th[u].self0.seed
           /\ th[t].point = th[u].point) => th[t].result = th[u].result
C6_Witness ==
    \E t, u \in Threads :
        /\ t # u
        /\ th[t].self = th[u].self
        /\ th[t].pc = "done" /\ th[u].pc = "sum"
        /\ th[t].point = th[u].point
        /\ th[t].result # 0
        /\ th[t].self0.seed # DEFAULT_SEED

=============================================================================
